---- MODULE Spec2Model ----
(***************************************************************************)
(* Model of the argument registry and parser of argparser.h                *)
(* (argparser_initialize, argparser_add_flag / _kwarg / _argument,         *)
(* argparser_parse_args and the three accessors).                          *)
(*                                                                         *)
(* C strings are sequences of one-character strings.  A char* is either    *)
(* NULL (the empty tuple) or Str(s), a one-element tuple holding the       *)
(* string it points to.                                                    *)
(***************************************************************************)
EXTENDS Integers, Sequences, FiniteSets, TLC

\* ------------------------------------------------------------------ bounds
MaxSpecs == 2    \* registrations made after construction
MaxArgs == 2     \* tokens on the command line after the program name
MaxHelps == 1    \* calls of argparser_print_help

\* --------------------------------------------------------- C-level values
NUL == "NUL"                         \* the character '\0'
NULL == <<>>                         \* the null pointer
Str(s) == <<s>>                      \* a non-null char* to the string s

FLAG == "FLAG"
KWARG == "KWARG"
ARG == "ARG"

INDETERMINATE == <<"?", "?">>        \* a pointer field no code has written yet
UNINIT == <<>>                       \* an int field no code has written yet
Written(n) == <<n>>                    \* an int field holding n

TrueStr == <<"t", "r", "u", "e">>    \* the literal "true"
HelpName == <<"h", "e", "l", "p">>   \* the literal "help"
HelpText == <<"H">>                  \* stands for "Shows this help Menu"
ProgName == <<"p">>                  \* argv[0]
DefaultD == <<"D">>                  \* a declared default value

\* the outcomes of strdup(NULL), which is undefined behaviour: glibc faults
\* in strlen, other C libraries hand NULL back
StrdupNullOutcomes == {"crash", "null"}

\* ------------------------------------------------------------ input bounds
\* registration calls the caller may make (symbol NUL means "no symbol")
FlagCalls ==
  { [sym |-> NUL, name |-> <<"q", "t">>, help |-> NULL] }

KwargCalls ==
  { [sym |-> "c", name |-> <<"c", "t">>, required |-> 0,
     default_value |-> Str(DefaultD), help |-> Str(HelpText)],
    [sym |-> "c", name |-> <<"c", "t">>, required |-> 1,
     default_value |-> Str(DefaultD), help |-> NULL],
    [sym |-> "o", name |-> <<"o", "t">>, required |-> 0,
     default_value |-> NULL, help |-> NULL],
    [sym |-> "o", name |-> <<"o", "t">>, required |-> 1,
     default_value |-> NULL, help |-> NULL] }

ArgCalls ==
  { [sym |-> "o", name |-> <<"c", "t">>, required |-> 0, nargs |-> 1,
     default_value |-> Str(DefaultD), help |-> NULL] }

\* command-line tokens the caller may pass
Tokens ==
  { <<"-", "-", "h", "e", "l", "p">>,            \* --help
    <<"-", "-", "c", "t", "=", "a", "=", "b">>,  \* --ct=a=b
    <<"-", "c">>,                                \* -c
    <<"-", "c", "h", "5">>,                      \* -ch5
    <<"-", "h", "c", "o", "=", "7">>,            \* -hco=7
    <<"-", "0">>,                                \* -0
    <<"c", "t", "=", "5">> }                     \* ct=5

ArgLists == UNION { [1..n -> Tokens] : n \in 0..MaxArgs }

\* the calls and the tokens of the life-cycle specification SpecLife, which
\* adds the help printer and the teardown and lets registrations follow parse
LifeFlagCalls ==
  { [sym |-> "c", name |-> <<"c", "t">>, help |-> NULL] }

LifeKwargCalls ==
  { [sym |-> "c", name |-> <<"c", "t">>, required |-> 0,
     default_value |-> Str(DefaultD), help |-> Str(HelpText)] }

LifeArgCalls ==
  { [sym |-> "o", name |-> <<"c", "t">>, required |-> 0, nargs |-> 1,
     default_value |-> Str(DefaultD), help |-> NULL] }

LifeTokens ==
  { <<"-", "c", "=", "5">>,                      \* -c=5
    <<"c", "t", "=", "5">> }                     \* ct=5

LifeArgLists == UNION { [1..n -> LifeTokens] : n \in 0..MaxArgs }

\* the formats and arguments of the variadic constructor parser(), as the
\* sequence of the directives of the format, each with its argument
Formats ==
  { <<>>,
    <<[d |-> "r", v |-> 0]>>,
    <<[d |-> "p", v |-> ProgName], [d |-> "e", v |-> <<"e">>]>> }

\* the calls and the tokens of SpecCtor, the specification of a registry
\* built by parser(): every token carries an explicit value
CtorFlagCalls ==
  { [sym |-> "c", name |-> <<"c", "t">>, help |-> NULL] }

CtorKwargCalls ==
  { [sym |-> "c", name |-> <<"c", "t">>, required |-> 0,
     default_value |-> Str(DefaultD), help |-> NULL],
    [sym |-> "c", name |-> <<"c", "t">>, required |-> 1,
     default_value |-> NULL, help |-> NULL] }

CtorArgCalls ==
  { [sym |-> "o", name |-> <<"c", "t">>, required |-> 0, nargs |-> 1,
     default_value |-> Str(DefaultD), help |-> NULL] }

CtorTokens ==
  { <<"-", "-", "c", "t", "=", "5">>,            \* --ct=5
    <<"-", "c", "=", "6">>,                      \* -c=6
    <<"c", "t", "=", "7">>,                      \* ct=7
    <<"c", "=", "8">> }                          \* c=8

CtorArgLists == UNION { [1..n -> CtorTokens] : n \in 0..MaxArgs }

\* what a read of an int field that no code has written may give
UninitCounts == {0, 1, 2}

\* names a caller may ask the accessors for
Names == { HelpName, <<"q", "t">>, <<"c", "t">>, <<"o", "t">>, <<"z", "z">> }

\* --------------------------------------------------------------- state
VARIABLES
  parser,     \* ArgumentParser_t without its array: the strings and options
  arguments,  \* parser->arguments[0 .. parser->count-1], as a sequence
  passed,     \* the sym argument of the call that registered each spec
  status,     \* "ready": constructed, parse not called yet; "scanning": in
              \* the token loop of parse or about to leave it; "returned":
              \* parse has returned; "exited": exit(EXIT_FAILURE) was
              \* called; "crashed": the process died in strdup(NULL);
              \* "deleted": argparser_delete has run
  i,          \* the index of argparser_parse_args' token loop (C index)
  args,       \* the tokens the caller passed, as they were at the call
  argv,       \* the caller's argument vector, as it is in memory now
  out,        \* what has been written to standard output
  err,        \* what has been written to standard error
  held,       \* for each spec, what its value pointer refers to: "null",
              \* "block" (a block strdup gave to parse) or "def_val" (the
              \* block its def_val refers to)
  lost,       \* the number of blocks no pointer of the registry refers to
  freed,      \* what argparser_delete has passed to free(), in call order
  helps       \* the number of calls of argparser_print_help so far

vars == <<parser, arguments, passed, status, i, args, argv, out, err,
          held, lost, freed, helps>>

\* ------------------------------------------------------- string helpers
Min(S) == CHOOSE x \in S : \A y \in S : x <= y
Max(S) == CHOOSE x \in S : \A y \in S : x >= y

\* strncmp(s, p, strlen(p)) == 0
StartsWith(s, p) == Len(s) >= Len(p) /\ SubSeq(s, 1, Len(p)) = p

\* the string at s + n
Drop(s, n) == SubSeq(s, n + 1, Len(s))

\* strchr(s, ch): the position of the first ch in s, 0 when there is none
strchr(s, ch) ==
  IF \E k \in 1..Len(s) : s[k] = ch
  THEN Min({k \in 1..Len(s) : s[k] = ch})
  ELSE 0

\* a split at the last "=" instead of the first
SplitToken_LastEq(tok, off) ==
  LET rest == Drop(tok, off)
      eqs == {k \in 1..Len(rest) : rest[k] = "="}
  IN IF eqs # {}
     THEN [arg |-> SubSeq(rest, 1, Max(eqs) - 1), value |-> Str(Drop(rest, Max(eqs))),
           buf |-> [tok EXCEPT ![off + Max(eqs)] = NUL]]
     ELSE [arg |-> rest, value |-> NULL, buf |-> tok]

\* "char *arg = argv[i] + off; char *value = strchr(arg, '='); if (value)
\* { *value = '\0'; value++; } else value = NULL;": the name part, the value
\* pointer, and the token's buffer after the write
SplitToken(tok, off) ==
  LET rest == Drop(tok, off)
      eq == strchr(rest, "=")
  IN IF eq # 0
     THEN [arg |-> SubSeq(rest, 1, eq - 1), value |-> Str(Drop(rest, eq)),
           buf |-> [tok EXCEPT ![off + eq] = NUL]]
     ELSE [arg |-> rest, value |-> NULL, buf |-> tok]

\* ---------------------------------------------------------- registration
\* "sym ? sym : '0'"
StoredSym(sym) == IF sym # NUL THEN sym ELSE "0"

argparser_add_flag(as, sym, name, help) ==
  Append(as, [type |-> FLAG, def_val |-> NULL, required |-> 0, help |-> help,
              name |-> name, count |-> UNINIT, sym |-> StoredSym(sym),
              value |-> NULL])

\* a registration that overwrites the spec already carrying the name
argparser_add_kwarg_Update(as, sym, name, required, default_value, help) ==
  LET new == [type |-> KWARG, def_val |-> default_value, required |-> required,
              help |-> help, name |-> name, count |-> UNINIT,
              sym |-> StoredSym(sym), value |-> NULL]
      same == {j \in 1..Len(as) : as[j].name = name}
  IN IF same = {} THEN Append(as, new) ELSE [as EXCEPT ![Min(same)] = new]

argparser_add_kwarg(as, sym, name, required, default_value, help) ==
  Append(as, [type |-> KWARG, def_val |-> default_value, required |-> required,
              help |-> help, name |-> name, count |-> UNINIT,
              sym |-> StoredSym(sym), value |-> NULL])

argparser_add_argument(as, sym, name, required, nargs, default_value, help) ==
  Append(as, [type |-> ARG, def_val |-> default_value, required |-> required,
              help |-> help, name |-> name, count |-> Written(nargs),
              sym |-> StoredSym(sym), value |-> NULL])

\* an initialisation that leaves exit_on_error off
argparser_initialize_NoExit(program, usage, description, epilog) ==
  [program |-> Str(program), usage |-> Str(usage),
   description |-> Str(description), epilog |-> Str(epilog),
   prefix_char |-> "-", add_help |-> TRUE, allow_abbrev |-> TRUE,
   exit_on_error |-> FALSE]

\* the fields argparser_initialize writes (count is Len(arguments))
argparser_initialize(program, usage, description, epilog) ==
  [program |-> Str(program), usage |-> Str(usage),
   description |-> Str(description), epilog |-> Str(epilog),
   prefix_char |-> "-", add_help |-> TRUE, allow_abbrev |-> TRUE,
   exit_on_error |-> TRUE]

\* what parser() writes before it reads its format; argument_default is
\* not written
parser_defaults ==
  [program |-> NULL, usage |-> NULL, description |-> NULL, epilog |-> NULL,
   prefix_char |-> "-", add_help |-> TRUE, allow_abbrev |-> TRUE,
   exit_on_error |-> TRUE, argument_default |-> INDETERMINATE]

\* the loop of parser() over the directives fmt: the fields, and the number
\* of blocks whose only pointer a later directive assigned over
RECURSIVE parser_format(_, _)
parser_format(c, fmt) ==
  IF fmt = <<>> THEN c
  ELSE LET d == Head(fmt).d
           v == Head(fmt).v
           f == IF d = "p" THEN "program"
                ELSE IF d = "u" THEN "usage"
                ELSE IF d = "d" THEN "description"
                ELSE IF d = "D" THEN "argument_default"
                ELSE IF d = "e" THEN "program"
                ELSE IF d = "c" THEN "prefix_char"
                ELSE IF d = "h" THEN "add_help"
                ELSE IF d = "a" THEN "allow_abbrev"
                ELSE IF d = "r" THEN "exit_on_error"
                ELSE "none"
       IN IF f = "none" THEN parser_format(c, Tail(fmt))
          ELSE IF d \in {"p", "u", "d", "D", "e"}
          THEN parser_format(
                 [p |-> [c.p EXCEPT ![f] = Str(v)],
                  lost |-> c.lost + (IF c.p[f] \notin {NULL, INDETERMINATE}
                                     THEN 1 ELSE 0)],
                 Tail(fmt))
          ELSE IF d = "c"
          THEN parser_format([c EXCEPT !.p[f] = v], Tail(fmt))
          ELSE parser_format([c EXCEPT !.p[f] = (v # 0)], Tail(fmt))

\* -------------------------------------------------------------- parsing
\* a first loop that also takes a one-character name part for a symbol
NameLoop_BySymbol(as, arg, value) ==
  LET hits == {j \in 1..Len(as) : as[j].name = arg \/ <<as[j].sym>> = arg}
  IN IF hits = {} THEN as ELSE [as EXCEPT ![Min(hits)].value = value]

\* first loop of the long and bare branches: the first spec with the name,
\* whatever its type, gets strdup(value)
NameLoop(as, arg, value) ==
  LET hits == {j \in 1..Len(as) : as[j].name = arg}
  IN IF hits = {} THEN as ELSE [as EXCEPT ![Min(hits)].value = value]

\* a second loop that gives a Flag the value of the token when there is one
KindLoop_FlagTakesValue(as, arg, value) ==
  LET hits == {j \in 1..Len(as) : as[j].name = arg /\ as[j].type \in {FLAG, KWARG}}
  IN IF hits = {} THEN as
     ELSE [as EXCEPT ![Min(hits)].value =
             IF as[Min(hits)].type = FLAG /\ value = NULL THEN Str(TrueStr)
             ELSE value]

\* second loop of the long and bare branches: the first FLAG or KWARG with
\* the name gets "true" or strdup(value)
KindLoop(as, arg, value) ==
  LET hits == {j \in 1..Len(as) : as[j].name = arg /\ as[j].type \in {FLAG, KWARG}}
  IN IF hits = {} THEN as
     ELSE [as EXCEPT ![Min(hits)].value =
             IF as[Min(hits)].type = FLAG THEN Str(TrueStr) ELSE value]

\* both loops; ub is the outcome of strdup(NULL) in this build.  The first
\* strdup(NULL) is the first loop's, before any spec has been written.
AssignByName(as, arg, value, ub) ==
  IF value = NULL /\ ub = "crash" /\ \E j \in 1..Len(as) : as[j].name = arg
  THEN [arguments |-> as, crashed |-> TRUE]
  ELSE [arguments |-> KindLoop(NameLoop(as, arg, value), arg, value),
        crashed |-> FALSE]

\* a resolution that takes a spec of any kind
SymbolHit_AnyKind(as, ch) ==
  LET hits == {k \in 1..Len(as) : as[k].sym = ch}
  IN IF hits = {} THEN 0 ELSE Min(hits)

\* a resolution that takes the last spec carrying the symbol
SymbolHit_Last(as, ch) ==
  LET hits == {k \in 1..Len(as) : as[k].sym = ch /\ as[k].type \in {FLAG, KWARG}}
  IN IF hits = {} THEN 0 ELSE Max(hits)

\* the spec a short symbol resolves to: the first FLAG or KWARG carrying it
SymbolHit(as, ch) ==
  LET hits == {k \in 1..Len(as) : as[k].sym = ch /\ as[k].type \in {FLAG, KWARG}}
  IN IF hits = {} THEN 0 ELSE Min(hits)

\* a symbol loop whose break leaves the token after its first hit
SymbolLoop_StopAtFirst(as, chars, value, ub) ==
  LET hitting == {n \in 1..Len(chars) : SymbolHit(as, chars[n]) # 0}
  IN IF hitting = {} THEN [arguments |-> as, crashed |-> FALSE]
     ELSE LET k == SymbolHit(as, chars[Min(hitting)])
          IN IF as[k].type = FLAG
             THEN [arguments |-> [as EXCEPT ![k].value = Str(TrueStr)], crashed |-> FALSE]
             ELSE IF value = NULL /\ ub = "crash"
             THEN [arguments |-> as, crashed |-> TRUE]
             ELSE [arguments |-> [as EXCEPT ![k].value = value], crashed |-> FALSE]

\* the short branch: one pass over the characters of arg
RECURSIVE SymbolLoop(_, _, _, _)
SymbolLoop(as, chars, value, ub) ==
  IF chars = <<>> THEN [arguments |-> as, crashed |-> FALSE]
  ELSE LET k == SymbolHit(as, Head(chars))
       IN IF k = 0 THEN SymbolLoop(as, Tail(chars), value, ub)
          ELSE IF as[k].type = FLAG
          THEN SymbolLoop([as EXCEPT ![k].value = Str(TrueStr)], Tail(chars), value, ub)
          ELSE IF value = NULL /\ ub = "crash"
          THEN [arguments |-> as, crashed |-> TRUE]
          ELSE SymbolLoop([as EXCEPT ![k].value = value], Tail(chars), value, ub)

\* a classification by the prefix character of the registry
TokenForm_PrefixChar(tok) ==
  IF StartsWith(tok, <<parser.prefix_char, parser.prefix_char>>) THEN "long"
  ELSE IF StartsWith(tok, <<parser.prefix_char>>) THEN "short"
  ELSE "bare"

\* the form of a token: "long" (--), "short" (-) or "bare"
TokenForm(tok) ==
  IF StartsWith(tok, <<"-", "-">>) THEN "long"
  ELSE IF StartsWith(tok, <<"-">>) THEN "short"
  ELSE "bare"

PrefixLen(tok) ==
  IF TokenForm(tok) = "long" THEN 2 ELSE IF TokenForm(tok) = "short" THEN 1 ELSE 0

\* one iteration of the token loop on the buffer tok
ProcessToken(as, tok, ub) ==
  LET sp == SplitToken(tok, PrefixLen(tok))
      r == IF TokenForm(tok) = "short"
           THEN SymbolLoop(as, sp.arg, sp.value, ub)
           ELSE AssignByName(as, sp.arg, sp.value, ub)
  IN [arguments |-> r.arguments, crashed |-> r.crashed, buf |-> sp.buf,
      echo |-> IF TokenForm(tok) = "bare" THEN <<sp.arg>> ELSE <<>>]

\* a pass that reports nothing: it leaves a required spec without a value
\* as it is and goes on
RECURSIVE PostScan_Recoverable(_, _)
PostScan_Recoverable(as, k) ==
  IF k > Len(as) THEN [arguments |-> as, missing |-> 0]
  ELSE PostScan_Recoverable(IF as[k].value = NULL
                            THEN [as EXCEPT ![k].value = as[k].def_val] ELSE as,
                            k + 1)

\* a pass that substitutes the default before it tests required
RECURSIVE PostScan_DefaultFirst(_, _)
PostScan_DefaultFirst(as, k) ==
  IF k > Len(as) THEN [arguments |-> as, missing |-> 0]
  ELSE LET filled == IF as[k].value = NULL
                     THEN [as EXCEPT ![k].value = as[k].def_val] ELSE as
       IN IF filled[k].required # 0 /\ filled[k].value = NULL
          THEN [arguments |-> filled, missing |-> k]
          ELSE PostScan_DefaultFirst(filled, k + 1)

\* the pass after the token loop, from spec k on: missing is the index of
\* the required spec it stopped at, 0 when it ran to the end
RECURSIVE PostScan(_, _)
PostScan(as, k) ==
  IF k > Len(as) THEN [arguments |-> as, missing |-> 0]
  ELSE IF as[k].required # 0 /\ as[k].value = NULL
  THEN [arguments |-> as, missing |-> k]
  ELSE PostScan(IF as[k].value = NULL
                THEN [as EXCEPT ![k].value = as[k].def_val] ELSE as, k + 1)

\* ------------------------------------------------------------- accessors
\* a lookup that stops at the last spec of the name
FirstNamed_Last(as, name) ==
  LET hits == {j \in 1..Len(as) : as[j].name = name}
  IN IF hits = {} THEN 0 ELSE Max(hits)

\* the spec the accessors' loop returns from: the first one of the name
FirstNamed(as, name) ==
  LET hits == {j \in 1..Len(as) : as[j].name = name}
  IN IF hits = {} THEN 0 ELSE Min(hits)

\* no fall back to the default
ValueOrDefault_NoFallback(a) == a.value

ValueOrDefault(a) == IF a.value # NULL THEN a.value ELSE a.def_val

argparser_get_arg(as, name) ==
  LET j == FirstNamed(as, name)
  IN IF j = 0 THEN NULL
     ELSE IF as[j].type = ARG THEN ValueOrDefault(as[j]) ELSE NULL

\* get_kwarg testing for the type of get_arg
argparser_get_kwarg_WrongType(as, name) ==
  LET j == FirstNamed(as, name)
  IN IF j = 0 THEN NULL
     ELSE IF as[j].type = ARG THEN ValueOrDefault(as[j]) ELSE NULL

argparser_get_kwarg(as, name) ==
  LET j == FirstNamed(as, name)
  IN IF j = 0 THEN NULL
     ELSE IF as[j].type = KWARG THEN ValueOrDefault(as[j]) ELSE NULL

\* get_flag without the test of the type
argparser_get_flag_AnyType(as, name) ==
  LET j == FirstNamed(as, name)
  IN IF j = 0 THEN 0 ELSE (IF as[j].value # NULL THEN 1 ELSE 0)

argparser_get_flag(as, name) ==
  LET j == FirstNamed(as, name)
  IN IF j = 0 THEN 0
     ELSE IF as[j].type = FLAG THEN (IF as[j].value # NULL THEN 1 ELSE 0) ELSE 0

\* ------------------------------------------------------------------ heap
\* the assignments to value fields that one iteration of the token loop
\* makes, in order: the spec assigned and whether the pointer stored is null
\* (strdup(NULL) that handed NULL back); "true" is always a fresh block
Assigned(as, tok) ==
  LET sp == SplitToken(tok, PrefixLen(tok))
      named == {j \in 1..Len(as) : as[j].name = sp.arg}
      kinded == {j \in named : as[j].type \in {FLAG, KWARG}}
      hits == SelectSeq(sp.arg, LAMBDA ch : SymbolHit(as, ch) # 0)
      Stored(k) == [spec |-> k, null |-> as[k].type # FLAG /\ sp.value = NULL]
  IN IF TokenForm(tok) = "short"
     THEN [n \in 1..Len(hits) |-> Stored(SymbolHit(as, hits[n]))]
     ELSE (IF named = {} THEN <<>>
           ELSE <<[spec |-> Min(named), null |-> sp.value = NULL]>>)
          \o (IF kinded = {} THEN <<>> ELSE <<Stored(Min(kinded))>>)

\* what the value pointers refer to after the assignments ws, and how many
\* blocks were left without a pointer: an assignment over a pointer to a
\* block of parse's own does not free the block
RECURSIVE Reassign(_, _)
Reassign(h, ws) ==
  IF ws = <<>> THEN h
  ELSE LET w == Head(ws)
       IN Reassign([held |-> [h.held EXCEPT ![w.spec] =
                                IF w.null THEN "null" ELSE "block"],
                    lost |-> h.lost + (IF h.held[w.spec] = "block" THEN 1 ELSE 0)],
                   Tail(ws))

\* "value = def_val" of the pass after the token loop: the value pointer
\* of a spec the pass filled refers to the block of its def_val
Defaulted(h, before, after) ==
  [k \in 1..Len(h) |->
     IF before[k].value = NULL /\ after[k].value # NULL THEN "def_val" ELSE h[k]]

\* ------------------------------------------------------------- help text
\* the three layouts, as the sequence of the pieces printf writes
_ArgumentParserPrintArgHelp(a) ==
  <<"-", a.sym, " --", a.name, " (required: ", a.required, " , [",
    IF a.def_val # NULL THEN a.def_val[1] ELSE <<"N", "o", "n", "e">>, "] ) = ",
    IF a.help # NULL THEN a.help[1] ELSE <<"N", "o", " ", "d">>, " \n">>

_ArgumentParserPrintFlagHelp(a) ==
  <<"-", a.sym, "--", a.name, " :",
    IF a.help # NULL THEN a.help[1] ELSE <<>>, "\n">>

_ArgumentParserPrintKwargHelp(a) ==
  <<"-", a.sym, "--", a.name, " :",
    IF a.help # NULL THEN a.help[1] ELSE <<>>, "[",
    IF a.help # NULL THEN a.help[1] ELSE <<>>, "[required :  ", a.required,
    " , [", IF a.def_val # NULL THEN a.def_val[1] ELSE <<>>, "] ) ">>

\* a printer without the branch of the positional specs
argparser_print_help_NoArgs(as) ==
  LET shown == SelectSeq(as, LAMBDA a : a.type # ARG)
  IN [k \in 1..Len(shown) |->
        IF shown[k].type = FLAG THEN _ArgumentParserPrintFlagHelp(shown[k])
        ELSE _ArgumentParserPrintKwargHelp(shown[k])]

\* what argparser_print_help writes: one layout for each spec, in the order
\* of the array
argparser_print_help(as) ==
  [k \in 1..Len(as) |->
     IF as[k].type = FLAG THEN _ArgumentParserPrintFlagHelp(as[k])
     ELSE IF as[k].type = KWARG THEN _ArgumentParserPrintKwargHelp(as[k])
     ELSE _ArgumentParserPrintArgHelp(as[k])]

\* -------------------------------------------------------------- teardown
\* blocks are named by the pointer that first referred to them: <<j, f>> is
\* the block field f of spec j was given, <<0, f>> a block of the registry
\* itself, <<j, "wild">> a word that is no pointer to a block at all

\* the count field of a spec as argparser_delete reads it; g is what a
\* field never written reads as
CountRead(a, g) == IF a.count = UNINIT THEN g ELSE a.count[1]

\* the block the value pointer of spec j refers to
ValueBlock(h, j) == IF h[j] = "def_val" THEN <<j, "def_val">> ELSE <<j, "value">>

\* the calls of free() for spec j.  With count # 1 the value pointer is read
\* as the array values: each of its first count words goes to free(), then
\* the pointer itself
FreesOfSpec(as, h, j, g) ==
  <<<<j, "name">>>>
  \o (IF as[j].help # NULL THEN <<<<j, "help">>>> ELSE <<>>)
  \o (IF as[j].def_val # NULL THEN <<<<j, "def_val">>>> ELSE <<>>)
  \o (IF as[j].type \in {ARG, KWARG} /\ as[j].value # NULL
      THEN (IF CountRead(as[j], g) = 1 THEN <<>>
            ELSE [n \in 1..CountRead(as[j], g) |-> <<j, "wild">>])
           \o <<ValueBlock(h, j)>>
      ELSE <<>>)

RECURSIVE FreesFrom(_, _, _, _)
FreesFrom(as, h, j, g) ==
  IF j > Len(as) THEN <<>>
  ELSE FreesOfSpec(as, h, j, g) \o FreesFrom(as, h, j + 1, g)

\* every call of free() that argparser_delete makes, in order
argparser_delete(p, as, h, g) ==
  FreesFrom(as, h, 1, g)
  \o <<<<0, "arguments">>>>
  \o (IF p.program # NULL THEN <<<<0, "program">>>> ELSE <<>>)
  \o (IF p.usage # NULL THEN <<<<0, "usage">>>> ELSE <<>>)
  \o (IF p.description # NULL THEN <<<<0, "description">>>> ELSE <<>>)
  \o (IF p.epilog # NULL THEN <<<<0, "epilog">>>> ELSE <<>>)

\* ------------------------------------------------------------- wrappers
\* the token loop as a whole
RECURSIVE ScanAll(_, _, _)
ScanAll(as, toks, ub) ==
  IF toks = <<>> THEN [arguments |-> as, crashed |-> FALSE]
  ELSE LET r == ProcessToken(as, Head(toks), ub)
       IN IF r.crashed THEN [arguments |-> r.arguments, crashed |-> TRUE]
          ELSE ScanAll(r.arguments, Tail(toks), ub)

\* parse_args as one call on the tokens toks: the array it leaves, the index
\* of the required spec it exited at (0: it returned), whether it crashed
parse_args(as, toks, ub) ==
  LET s == ScanAll(as, toks, ub)
      r == PostScan(s.arguments, 1)
  IN IF s.crashed THEN [arguments |-> s.arguments, missing |-> 0, crashed |-> TRUE]
     ELSE [arguments |-> r.arguments, missing |-> r.missing, crashed |-> FALSE]

\* the C wrapper "void Parse(Argparser *, int, char **) {}"
Parse(as, toks, ub) == [arguments |-> as, missing |-> 0, crashed |-> FALSE]

\* the C wrapper "void Help(Argparser *parser, int description, int usage,
\* int epilog, int group) {}": what it writes
Help(as) == <<>>

\* --------------------------------------------------------------- actions
Init ==
  /\ parser = argparser_initialize(ProgName, <<"u">>, <<"d">>, <<"e">>)
  /\ arguments = argparser_add_flag(<<>>, "h", HelpName, Str(HelpText))
  /\ passed = <<"h">>
  /\ status = "ready"
  /\ i = 0
  /\ args = <<>>
  /\ argv = <<>>
  /\ out = <<>>
  /\ err = <<>>
  /\ held = <<"null">>
  /\ lost = 0
  /\ freed = <<>>
  /\ helps = 0

CanRegister == status = "ready" /\ Len(arguments) < 1 + MaxSpecs

\* a call of argparser_add_flag with arguments out of calls
AddFlagFrom(calls) ==
  /\ \E c \in calls :
       /\ arguments' = argparser_add_flag(arguments, c.sym, c.name, c.help)
       /\ passed' = Append(passed, c.sym)
  /\ held' = Append(held, "null")
  /\ UNCHANGED <<parser, status, i, args, argv, out, err, lost, freed, helps>>

\* a call of argparser_add_kwarg with arguments out of calls
AddKwargFrom(calls) ==
  /\ \E c \in calls :
       /\ arguments' = argparser_add_kwarg(arguments, c.sym, c.name, c.required,
                                        c.default_value, c.help)
       /\ passed' = Append(passed, c.sym)
  /\ held' = Append(held, "null")
  /\ UNCHANGED <<parser, status, i, args, argv, out, err, lost, freed, helps>>

\* a call of argparser_add_argument with arguments out of calls
AddArgumentFrom(calls) ==
  /\ \E c \in calls :
       /\ arguments' = argparser_add_argument(arguments, c.sym, c.name, c.required,
                                           c.nargs, c.default_value, c.help)
       /\ passed' = Append(passed, c.sym)
  /\ held' = Append(held, "null")
  /\ UNCHANGED <<parser, status, i, args, argv, out, err, lost, freed, helps>>

AddFlag == CanRegister /\ AddFlagFrom(FlagCalls)

AddKwarg == CanRegister /\ AddKwargFrom(KwargCalls)

AddArgument == CanRegister /\ AddArgumentFrom(ArgCalls)

\* the call argparser_parse_args(parser, argc, argv): "int i = 1"
ParseArgsFrom(lists) ==
  /\ status = "ready"
  /\ \E a \in lists :
       /\ args' = a
       /\ argv' = <<ProgName>> \o a
  /\ i' = 1
  /\ status' = "scanning"
  /\ UNCHANGED <<parser, arguments, passed, out, err, held, lost, freed, helps>>

ParseArgs == ParseArgsFrom(ArgLists)

\* one iteration of "for (int i = 1; i < argc; i++)"; argv[i] is argv[i + 1]
\* of the sequence
ScanToken ==
  /\ status = "scanning"
  /\ i < Len(argv)
  /\ \E ub \in StrdupNullOutcomes :
       LET r == ProcessToken(arguments, argv[i + 1], ub)
       IN /\ arguments' = r.arguments
          /\ argv' = [argv EXCEPT ![i + 1] = r.buf]
          /\ out' = out \o r.echo
          /\ status' = IF r.crashed THEN "crashed" ELSE "scanning"
          /\ i' = IF r.crashed THEN i ELSE i + 1
          /\ LET h == IF r.crashed THEN [held |-> held, lost |-> lost]
                      ELSE Reassign([held |-> held, lost |-> lost],
                                    Assigned(arguments, argv[i + 1]))
             IN held' = h.held /\ lost' = h.lost
  /\ UNCHANGED <<parser, passed, args, err, freed, helps>>

\* the loop after the scan: exit(EXIT_FAILURE) at the first required spec
\* without a value, defaults into the others, then return
Validate ==
  /\ status = "scanning"
  /\ i >= Len(argv)
  /\ LET r == PostScan(arguments, 1)
     IN /\ arguments' = r.arguments
        /\ IF r.missing # 0
           THEN /\ err' = Append(err, arguments[r.missing].name)
                /\ status' = "exited"
           ELSE /\ err' = err
                /\ status' = "returned"
        /\ held' = Defaulted(held, arguments, r.arguments)
  /\ UNCHANGED <<parser, passed, i, args, argv, out, lost, freed, helps>>

Next == AddFlag \/ AddKwarg \/ AddArgument \/ ParseArgs \/ ScanToken \/ Validate

Spec == Init /\ [][Next]_vars

\* ------------------------------------------- the life-cycle specification
\* nothing in the code ties registration to the time before parse
CanRegisterLate == status \in {"ready", "returned"} /\ Len(arguments) < 1 + MaxSpecs

LifeAddFlag == CanRegisterLate /\ AddFlagFrom(LifeFlagCalls)

LifeAddKwarg == CanRegisterLate /\ AddKwargFrom(LifeKwargCalls)

LifeAddArgument == CanRegisterLate /\ AddArgumentFrom(LifeArgCalls)

LifeParseArgs == ParseArgsFrom(LifeArgLists)

\* the call argparser_print_help(parser)
PrintHelp ==
  /\ status \in {"ready", "returned"}
  /\ helps < MaxHelps
  /\ out' = out \o argparser_print_help(arguments)
  /\ helps' = helps + 1
  /\ UNCHANGED <<parser, arguments, passed, status, i, args, argv, err,
                 held, lost, freed>>

\* the call argparser_delete(parser)
Delete ==
  /\ status \in {"ready", "returned"}
  /\ \E g \in UninitCounts :
       freed' = argparser_delete(parser, arguments, held, g)
  /\ status' = "deleted"
  /\ UNCHANGED <<parser, arguments, passed, i, args, argv, out, err,
                 held, lost, helps>>

NextLife ==
  \/ LifeAddFlag \/ LifeAddKwarg \/ LifeAddArgument
  \/ LifeParseArgs \/ ScanToken \/ Validate
  \/ PrintHelp \/ Delete

SpecLife == Init /\ [][NextLife]_vars

\* ------------------------------------------ a registry built by parser()
\* parser(parser, format, ...): the defaults, the directives of the format,
\* then the help flag when add_help is on
InitCtorFrom(formats) ==
  \E fmt \in formats :
    LET c == parser_format([p |-> parser_defaults, lost |-> 0], fmt)
    IN /\ parser = c.p
       /\ lost = c.lost
       /\ arguments = IF c.p.add_help
                      THEN argparser_add_flag(<<>>, "h", HelpName, Str(HelpText))
                      ELSE <<>>
       /\ passed = IF c.p.add_help THEN <<"h">> ELSE <<>>
       /\ held = IF c.p.add_help THEN <<"null">> ELSE <<>>
       /\ status = "ready"
       /\ i = 0
       /\ args = <<>>
       /\ argv = <<>>
       /\ out = <<>>
       /\ err = <<>>
       /\ freed = <<>>
       /\ helps = 0

InitCtor == InitCtorFrom(Formats)

CtorAddFlag == CanRegister /\ AddFlagFrom(CtorFlagCalls)

CtorAddKwarg == CanRegister /\ AddKwargFrom(CtorKwargCalls)

CtorAddArgument == CanRegister /\ AddArgumentFrom(CtorArgCalls)

CtorParseArgs == ParseArgsFrom(CtorArgLists)

NextCtor ==
  \/ CtorAddFlag \/ CtorAddKwarg \/ CtorAddArgument
  \/ CtorParseArgs \/ ScanToken \/ Validate

SpecCtor == InitCtor /\ [][NextCtor]_vars

\* ------------------------------------------------ the wrapper interfaces
\* The methods of the C++ class and the C functions AddFlag, AddKwarg and
\* AddArg pass their arguments on to add_flag, add_kwarg, add_arg,
\* parse_args and print_help, so for them the actions of the core stand.
\* The C functions Parse and Help have bodies of their own.

\* a call of the C wrapper Parse
CallParse ==
  /\ status = "ready"
  /\ \E a \in CtorArgLists, ub \in StrdupNullOutcomes :
       LET r == Parse(arguments, a, ub)
       IN /\ args' = a
          /\ argv' = <<ProgName>> \o a
          /\ arguments' = r.arguments
          /\ status' = IF r.crashed THEN "crashed"
                       ELSE IF r.missing # 0 THEN "exited" ELSE "returned"
  /\ UNCHANGED <<parser, passed, i, out, err, held, lost, freed, helps>>

\* a call of the C wrapper Help
CallHelp ==
  /\ status \in {"ready", "returned"}
  /\ helps < MaxHelps
  /\ out' = out \o Help(arguments)
  /\ helps' = helps + 1
  /\ UNCHANGED <<parser, arguments, passed, status, i, args, argv, err,
                 held, lost, freed>>

NextWrap ==
  \/ CtorAddFlag \/ CtorAddKwarg \/ CtorAddArgument
  \/ CtorParseArgs \/ ScanToken \/ Validate \/ PrintHelp
  \/ CallParse \/ CallHelp

SpecWrap == Init /\ [][NextWrap]_vars

\* ------------------------------------- registries with shared names
\* Nothing in add_flag, add_kwarg or add_arg looks for a spec of the same
\* name or symbol, and nothing in parse_args reads allow_abbrev or
\* prefix_char.  SpecDup is the specification of a registry built by
\* parser() with these two options at their defaults or set by the format,
\* in which a second "help" is registered and a Keyword and a Positional
\* share name and symbol.
DupFormats ==
  { <<>>,
    <<[d |-> "a", v |-> 0]>>,
    <<[d |-> "c", v |-> "+"]>> }

DupFlagCalls ==
  { [sym |-> "h", name |-> HelpName, help |-> NULL] }

DupKwargCalls ==
  { [sym |-> "c", name |-> <<"c", "t">>, required |-> 0,
     default_value |-> Str(DefaultD), help |-> NULL] }

DupArgCalls ==
  { [sym |-> "c", name |-> <<"c", "t">>, required |-> 0, nargs |-> 1,
     default_value |-> NULL, help |-> NULL] }

DupTokens ==
  { <<"-", "h", "c", "=", "6">>,                 \* -hc=6
    <<"-", "-", "c", "t", "=", "5">>,            \* --ct=5
    <<"c", "t", "=", "7">>,                      \* ct=7
    <<"-", "-", "c", "=", "5">>,                 \* --c=5
    <<"+", "c", "t", "=", "5">> }                \* +ct=5

DupArgLists == UNION { [1..n -> DupTokens] : n \in 0..MaxArgs }

InitDup == InitCtorFrom(DupFormats)

DupAddFlag == CanRegister /\ AddFlagFrom(DupFlagCalls)

DupAddKwarg == CanRegister /\ AddKwargFrom(DupKwargCalls)

DupAddArgument == CanRegister /\ AddArgumentFrom(DupArgCalls)

DupParseArgs == ParseArgsFrom(DupArgLists)

NextDup ==
  \/ DupAddFlag \/ DupAddKwarg \/ DupAddArgument
  \/ DupParseArgs \/ ScanToken \/ Validate

SpecDup == InitDup /\ [][NextDup]_vars

\* --------------------------------------------- vocabulary of the properties
Specs == 1..Len(arguments)

\* the token grammar, read off the token as the caller wrote it: up to two
\* leading dashes, then the name part, then "=" and the value part if the
\* token holds a "="
Dashes(tok) ==
  IF Len(tok) >= 2 /\ tok[1] = "-" /\ tok[2] = "-" THEN 2
  ELSE IF Len(tok) >= 1 /\ tok[1] = "-" THEN 1 ELSE 0
Body(tok) == SubSeq(tok, Dashes(tok) + 1, Len(tok))
EqAt(s) == {k \in 1..Len(s) : s[k] = "="}
NamePart(tok) ==
  IF EqAt(Body(tok)) = {} THEN Body(tok)
  ELSE SubSeq(Body(tok), 1, Min(EqAt(Body(tok))) - 1)
ValuePart(tok) ==
  IF EqAt(Body(tok)) = {} THEN NULL
  ELSE Str(SubSeq(Body(tok), Min(EqAt(Body(tok))) + 1, Len(Body(tok))))
IsShort(tok) == Dashes(tok) = 1

Chars(s) == {s[k] : k \in 1..Len(s)}

\* token tok is addressed to spec a: by name when long or bare, by one of
\* its characters when short
Addresses(tok, a) ==
  IF IsShort(tok) THEN a.sym \in Chars(NamePart(tok))
  ELSE NamePart(tok) = a.name

\* the positions in args of the tokens addressed to spec j
Addressing(j) == {k \in 1..Len(args) : Addresses(args[k], arguments[j])}

\* names and symbols are meant to be unique within a registry; the code does
\* not enforce it, so the properties about "the spec named N" or "the spec
\* with symbol c" speak of the spec the name or the symbol resolves to
NameResolvesTo(j) == \A k \in 1..(j - 1) : arguments[k].name # arguments[j].name
SymResolvesTo(j) ==
  \A k \in 1..(j - 1) :
    arguments[k].sym = arguments[j].sym => arguments[k].type = ARG

\* the token --N
LongToken(N) == <<"-", "-">> \o N

\* the required specs that have no value
Missing(as) == {k \in 1..Len(as) : as[k].required # 0 /\ as[k].value = NULL}

\* ------------------------------------------------------------ properties

\* C1: for a registry holding a Flag named N, parse of an argument list that
\* contains the token --N (without "=") returns and get_flag(N) is then
\* true; after parse of a list in which no token is addressed to the flag,
\* get_flag(N) is false.  (A parse that ends in exit(EXIT_FAILURE) for a
\* missing required argument is not covered.)
C1_LongTokenSetsFlag ==
  \A j \in Specs :
    (arguments[j].type = FLAG /\ NameResolvesTo(j)) =>
      /\ (/\ status \in {"returned", "crashed"}
          /\ \E k \in 1..Len(args) : args[k] = LongToken(arguments[j].name))
         => (status = "returned"
             /\ argparser_get_flag(arguments, arguments[j].name) = 1)
      /\ (status = "returned" /\ Addressing(j) = {})
         => argparser_get_flag(arguments, arguments[j].name) = 0

\* C2: for the Keyword a name N resolves to, after parse of an argument list
\* whose last token addressed to it is --N=V, get_kwarg(N) is V, everything
\* after the first "=" of the token.
C2_LongTokenSetsKeyword ==
  status = "returned" =>
    \A j \in Specs :
      (arguments[j].type = KWARG /\ NameResolvesTo(j) /\ Addressing(j) # {}) =>
        LET tok == args[Max(Addressing(j))]
            pre == LongToken(arguments[j].name) \o <<"=">>
        IN StartsWith(tok, pre) =>
             argparser_get_kwarg(arguments, arguments[j].name)
               = Str(Drop(tok, Len(pre)))

\* C2 witness: parse has returned, two tokens were addressed to one keyword,
\* the first carried another value, the last is --N=V with a "=" inside V
C2_Witness ==
  /\ status = "returned"
  /\ \E j \in Specs :
       /\ arguments[j].type = KWARG /\ NameResolvesTo(j)
       /\ Cardinality(Addressing(j)) = 2
       /\ LET tok == args[Max(Addressing(j))]
              pre == LongToken(arguments[j].name) \o <<"=">>
          IN /\ StartsWith(tok, pre)
             /\ "=" \in Chars(Drop(tok, Len(pre)))
             /\ ValuePart(args[Min(Addressing(j))]) \notin {NULL, ValuePart(tok)}

\* C3: when the token loop has ended and some required spec has no value,
\* parse does not return: its next step writes the name of the first such
\* spec, in registration order, to standard error and ends the process with
\* exit(EXIT_FAILURE).
C3_MissingRequiredExits ==
  [][(status = "scanning" /\ i >= Len(argv) /\ Missing(arguments) # {})
       => (/\ status' = "exited"
           /\ err' = Append(err, arguments[Min(Missing(arguments))].name))]_vars

\* C3 witness: the process has exited on the first of two required specs
\* without a value, and the two have different names
C3_Witness ==
  /\ status = "exited"
  /\ Cardinality(Missing(arguments)) = 2
  /\ \E k \in Missing(arguments) :
       arguments[k].name # arguments[Min(Missing(arguments))].name
  /\ err = <<arguments[Min(Missing(arguments))].name>>

\* C4: for a non-required Keyword declared with a default D, after parse of
\* an argument list in which no token is addressed to it, get_kwarg is D.
C4_DefaultWhenNotSupplied ==
  status = "returned" =>
    \A j \in Specs :
      (/\ arguments[j].type = KWARG /\ NameResolvesTo(j)
       /\ arguments[j].required = 0 /\ arguments[j].def_val # NULL
       /\ Addressing(j) = {})
      => argparser_get_kwarg(arguments, arguments[j].name) = arguments[j].def_val

\* C4 witness: parse has returned from a list of two tokens, neither
\* addressed to a non-required keyword that declares a default
C4_Witness ==
  /\ status = "returned"
  /\ Len(args) = 2
  /\ \E j \in Specs :
       /\ arguments[j].type = KWARG /\ NameResolvesTo(j)
       /\ arguments[j].required = 0 /\ arguments[j].def_val = Str(DefaultD)
       /\ Addressing(j) = {}
       /\ argparser_get_kwarg(arguments, arguments[j].name) = Str(DefaultD)

C6_ValuelessShortTokenKeepsAbsent ==
  \A j \in Specs :
    (/\ arguments[j].type = KWARG /\ NameResolvesTo(j) /\ SymResolvesTo(j)
     /\ arguments[j].required = 0 /\ arguments[j].def_val # NULL
     /\ \E k \in 1..Len(args) :
          /\ Addressing(j) = {k}
          /\ args[k] = <<"-", arguments[j].sym>>
          /\ status = "returned" \/ (status = "crashed" /\ i = k))
    => /\ status = "returned"
       /\ arguments[j].value = NULL
       /\ argparser_get_kwarg(arguments, arguments[j].name) = NULL

\* C7: a short token without "=" is resolved character by character and none
\* of its characters is a value: the iteration that handles it goes on to
\* the next token, and afterwards every Flag one of the characters resolves
\* to is "true", every Keyword one of them resolves to is absent, and
\* every other spec has the value it had.
C7_ShortTokenWithoutValue ==
  [][(/\ status = "scanning" /\ i < Len(argv)
      /\ IsShort(args[i]) /\ ValuePart(args[i]) = NULL
      /\ \E j, f \in Specs :
           /\ arguments[j].type = KWARG /\ arguments[f].type = FLAG
           /\ \A m \in {j, f} :
                SymResolvesTo(m) /\ arguments[m].sym \in Chars(NamePart(args[i])))
     => /\ status' = "scanning"
        /\ \A m \in Specs :
             arguments'[m].value =
               IF /\ arguments[m].type # ARG /\ SymResolvesTo(m)
                  /\ arguments[m].sym \in Chars(NamePart(args[i]))
               THEN (IF arguments[m].type = FLAG THEN Str(TrueStr) ELSE NULL)
               ELSE arguments[m].value]_vars

\* C8: each accessor returns its not-found value (NULL, NULL, 0) for every
\* name that no spec carries together with the accessor's own type, also
\* when a spec of another type carries the name.
C8_NotFoundSentinel ==
  \A n \in Names :
    /\ (~ \E j \in Specs : arguments[j].name = n /\ arguments[j].type = ARG)
         => argparser_get_arg(arguments, n) = NULL
    /\ (~ \E j \in Specs : arguments[j].name = n /\ arguments[j].type = KWARG)
         => argparser_get_kwarg(arguments, n) = NULL
    /\ (~ \E j \in Specs : arguments[j].name = n /\ arguments[j].type = FLAG)
         => argparser_get_flag(arguments, n) = 0

\* C8 witness: parse has returned, a name is carried by a Keyword that holds
\* a value and by no Flag and no Positional, and a name is carried by a Flag
\* that is set and by no Keyword
C8_Witness ==
  /\ status = "returned"
  /\ \E j \in Specs :
       /\ arguments[j].type = KWARG /\ arguments[j].value # NULL
       /\ \A k \in Specs :
            arguments[k].name = arguments[j].name => arguments[k].type = KWARG
  /\ \E j \in Specs :
       /\ arguments[j].type = FLAG /\ arguments[j].value # NULL
       /\ \A k \in Specs :
            arguments[k].name = arguments[j].name => arguments[k].type = FLAG

\* the token carries no registered name and none of its characters is a
\* symbol a registration call passed
Unmatched(tok) ==
  /\ \A j \in Specs : arguments[j].name # NamePart(tok)
  /\ \A j \in Specs : passed[j] = NUL \/ passed[j] \notin Chars(NamePart(tok))

\* C9: a token of any form that matches no registered name and no registered
\* symbol leaves the value of every spec as it was and does not make parse
\* fail: the loop goes on to the next token.
C9_UnmatchedTokenIgnored ==
  [][(status = "scanning" /\ i < Len(argv) /\ Unmatched(args[i]))
     => (arguments' = arguments /\ status' = "scanning" /\ i' = i + 1)]_vars

\* C10: for a registry with no required spec, both before parse is called and
\* after parse of an empty argument list, get_flag is false for every Flag
\* and get_kwarg / get_arg give each spec's declared default, NULL when none
\* was declared.
C10_EmptyParseGivesDefaults ==
  (/\ status = "ready" \/ (status = "returned" /\ args = <<>>)
   /\ \A j \in Specs : arguments[j].required = 0)
  => \A j \in Specs :
       NameResolvesTo(j) =>
         /\ arguments[j].type = FLAG
              => argparser_get_flag(arguments, arguments[j].name) = 0
         /\ arguments[j].type = KWARG
              => argparser_get_kwarg(arguments, arguments[j].name) = arguments[j].def_val
         /\ arguments[j].type = ARG
              => argparser_get_arg(arguments, arguments[j].name) = arguments[j].def_val

\* C10 witness: parse of the empty list has returned for a registry of a
\* flag, a keyword with a default and a keyword without one
C10_Witness ==
  /\ status = "returned" /\ args = <<>>
  /\ \A j \in Specs : arguments[j].required = 0 /\ NameResolvesTo(j)
  /\ \E j, k \in Specs :
       /\ arguments[j].type = KWARG /\ arguments[j].def_val = Str(DefaultD)
       /\ arguments[k].type = KWARG /\ arguments[k].def_val = NULL

\* no registration call has been made since argparser_initialize returned
\* (passed holds the symbol of its own call of argparser_add_flag)
FreshlyInitialized == status = "ready" /\ Len(passed) = 1

\* C11: immediately after argparser_initialize the registry holds exactly one
\* spec, a Flag named "help" with symbol 'h' and no value, and prefix_char
\* is '-' and add_help, allow_abbrev and exit_on_error are all true.
C11_InitialRegistry ==
  FreshlyInitialized =>
    /\ Len(arguments) = 1
    /\ arguments[1].type = FLAG
    /\ arguments[1].name = HelpName
    /\ arguments[1].sym = "h"
    /\ arguments[1].value = NULL
    /\ parser.prefix_char = "-"
    /\ parser.add_help = TRUE
    /\ parser.allow_abbrev = TRUE
    /\ parser.exit_on_error = TRUE

\* C11 witness: the state argparser_initialize leaves, before any other
\* call: one spec, nothing parsed, nothing printed, nothing freed
C11_Witness ==
  /\ FreshlyInitialized
  /\ Len(arguments) = 1
  /\ args = <<>> /\ out = <<>> /\ freed = <<>> /\ helps = 0
  /\ parser.program = Str(ProgName)

\* the fields of a spec that a registration call sets and nothing else is
\* to change
Declared(a) ==
  <<a.type, a.name, a.sym, a.required, a.def_val, a.help, a.count>>

\* C12: every registration call (a step that records a passed symbol), also
\* one whose name or symbol an earlier spec carries, makes the array one
\* longer, puts the new spec last with no value and leaves every earlier
\* spec as it was, value included; and no step of registration, parse or
\* help printing removes or reorders specs or changes a declared field.
C12_RegistrationAppends ==
  [][/\ passed' # passed =>
          /\ Len(arguments') = Len(arguments) + 1
          /\ SubSeq(arguments', 1, Len(arguments)) = arguments
          /\ arguments'[Len(arguments')].value = NULL
     /\ Len(arguments') >= Len(arguments)
     /\ \A j \in 1..Len(arguments) :
          Declared(arguments'[j]) = Declared(arguments[j])]_vars

\* C12 witness: a third spec was registered after parse returned; it has
\* the name and the stored symbol of the second, whose value parse set, and
\* it has no value itself
C12_Witness ==
  /\ status = "returned"
  /\ Len(arguments) = 3
  /\ arguments[3].name = arguments[2].name
  /\ arguments[3].sym = arguments[2].sym
  /\ arguments[2].value = Str(<<"5">>)
  /\ arguments[3].value = NULL

\* C13: one call of argparser_delete on a registry reached by construction,
\* registrations and a parse passes no block to free() twice and passes
\* nothing to free() that is not a block of the registry.
C13_TeardownFreesOnce ==
  status = "deleted" =>
    /\ \A m, n \in 1..Len(freed) : m # n => freed[m] # freed[n]
    /\ \A m \in 1..Len(freed) : freed[m][2] # "wild"

\* the blocks the registry holds a pointer to: the strings of every spec,
\* the array and the four strings of the parser
Allocated ==
  {<<j, "name">> : j \in Specs}
  \cup {<<j, "help">> : j \in {k \in Specs : arguments[k].help # NULL}}
  \cup {<<j, "def_val">> : j \in {k \in Specs : arguments[k].def_val # NULL}}
  \cup {<<j, "value">> : j \in {k \in Specs : held[k] = "block"}}
  \cup {<<0, "arguments">>}
  \cup {<<0, f>> : f \in {g \in {"program", "usage", "description", "epilog"} :
                            parser[g] # NULL}}

\* C14: after registrations and a parse, argparser_delete frees every block
\* the registry allocated: every block it still points to is passed to
\* free(), and parse has left no block without a pointer to it.
C14_TeardownFreesAll ==
  status = "deleted" =>
    /\ lost = 0
    /\ \A b \in Allocated : \E m \in 1..Len(freed) : freed[m] = b

\* the value the accessor of a spec's own kind returns for its name
Accessor(a) ==
  IF a.type = KWARG THEN argparser_get_kwarg(arguments, a.name)
  ELSE IF a.type = ARG THEN argparser_get_arg(arguments, a.name)
  ELSE NULL

\* token tok is bare and its name part is the symbol of a spec and the name
\* of none
BareSymbol(tok) ==
  /\ Dashes(tok) = 0
  /\ \E j \in Specs : NamePart(tok) = <<arguments[j].sym>>
  /\ \A j \in Specs : NamePart(tok) # arguments[j].name

\* C15: a bare token N=V is matched against names only.  After parse of an
\* argument list whose last token addressed to the Keyword or Positional
\* that N resolves to is the bare token N=V, the accessor of that spec
\* returns V; and as long as every token handled so far is a bare token
\* that does not carry a spec's name, that spec has no value, also when a
\* token is the spec's symbol.
C15_BareTokenMatchesNames ==
  /\ status = "returned" =>
       \A j \in Specs :
         (/\ arguments[j].type \in {KWARG, ARG} /\ NameResolvesTo(j)
          /\ Addressing(j) # {}
          /\ Dashes(args[Max(Addressing(j))]) = 0
          /\ ValuePart(args[Max(Addressing(j))]) # NULL)
         => Accessor(arguments[j]) = ValuePart(args[Max(Addressing(j))])
  /\ status = "scanning" =>
       \A j \in Specs :
         (\A k \in 1..(i - 1) :
            Dashes(args[k]) = 0 /\ NamePart(args[k]) # arguments[j].name)
         => arguments[j].value = NULL

\* C15 witness: parse has returned from the list of a bare token that is
\* the symbol of a Keyword and of a bare token N=V; N resolves to a
\* Positional, whose accessor returns V, and the Keyword of that symbol
\* does not hold the value of the token that is its symbol
C15_Witness ==
  /\ status = "returned"
  /\ Len(args) = 2
  /\ BareSymbol(args[1])
  /\ Dashes(args[2]) = 0
  /\ \E j, k \in Specs :
       /\ arguments[j].type = ARG /\ NameResolvesTo(j)
       /\ NamePart(args[2]) = arguments[j].name
       /\ argparser_get_arg(arguments, arguments[j].name) = ValuePart(args[2])
       /\ arguments[k].type = KWARG
       /\ NamePart(args[1]) = <<arguments[k].sym>>
       /\ NamePart(args[1]) # arguments[k].name
       /\ arguments[k].value # ValuePart(args[1])

\* C16: after parse has returned, the value of every Flag is either absent
\* or "true", also when the tokens addressed to it carried a value of their
\* own (--N=V, -n=V, N=V).
C16_FlagValueIsTrueOrAbsent ==
  status = "returned" =>
    \A j \in Specs :
      arguments[j].type = FLAG => arguments[j].value \in {NULL, Str(TrueStr)}

\* C16 witness: parse has returned from two tokens of different forms, both
\* addressed to one Flag and both carrying a value, and the Flag is "true"
C16_Witness ==
  /\ status = "returned"
  /\ Len(args) = 2
  /\ Dashes(args[1]) # Dashes(args[2])
  /\ \E j \in Specs :
       /\ arguments[j].type = FLAG
       /\ NameResolvesTo(j) /\ SymResolvesTo(j)
       /\ Addressing(j) = {1, 2}
       /\ ValuePart(args[1]) # NULL /\ ValuePart(args[2]) # NULL
       /\ arguments[j].value = Str(TrueStr)

\* C17: with exit_on_error false a missing required argument still ends the
\* process: when the token loop has ended and a required spec has no value,
\* the next step of parse writes to standard error and calls
\* exit(EXIT_FAILURE); parse does not return to its caller.
C17_ExitOnErrorIsNotRead ==
  [][(/\ parser.exit_on_error = FALSE
      /\ status = "scanning" /\ i >= Len(argv)
      /\ Missing(arguments) # {})
     => (status' = "exited" /\ Len(err') = Len(err) + 1)]_vars

\* C17 witness: a registry built with exit_on_error false has exited from a
\* parse of two tokens, none of which gave the required Keyword a value
C17_Witness ==
  /\ parser.exit_on_error = FALSE
  /\ status = "exited"
  /\ Len(args) = 2
  /\ \E j \in Specs :
       /\ arguments[j].type = KWARG /\ arguments[j].required = 1
       /\ arguments[j].value = NULL
       /\ err = <<arguments[j].name>>

\* the printed entry e is the one of spec a: it has the layout of a's kind
\* (7, 13 and 11 pieces) and shows a's symbol and name
EntryOf(e, a) ==
  /\ Len(e) = (IF a.type = FLAG THEN 7 ELSE IF a.type = KWARG THEN 13 ELSE 11)
  /\ e[2] = a.sym
  /\ e[4] = a.name

\* C18: a call of argparser_print_help writes exactly one entry for each
\* registered spec, in the order of registration and whatever the kinds of
\* the specs, after what was written before, and changes nothing in the
\* registry.
C18_HelpOneEntryPerSpec ==
  [][helps' # helps =>
       /\ arguments' = arguments /\ parser' = parser /\ held' = held
       /\ Len(out') = Len(out) + Len(arguments)
       /\ \A n \in 1..Len(out) : out'[n] = out[n]
       /\ \A j \in Specs : EntryOf(out'[Len(out) + j], arguments[j])]_vars

\* C18 witness: the help of a registry of a Flag, a Keyword and a
\* Positional, two of them sharing a name, was printed after parse returned
C18_Witness ==
  /\ status = "returned"
  /\ helps = 1
  /\ Len(arguments) = 3
  /\ {arguments[j].type : j \in Specs} = {FLAG, KWARG, ARG}
  /\ arguments[2].name = arguments[3].name
  /\ Len(out) = 3
  /\ \A j \in Specs : EntryOf(out[j], arguments[j])

\* the array as it was when parse was called: no spec had a value
BeforeParse == [j \in Specs |-> [arguments[j] EXCEPT !.value = NULL]]

\* C19: every operation of the wrapper interfaces does what the core
\* function of its name does with the same arguments.  For the two
\* operations with bodies of their own: once a parse call has returned or
\* exited, the array is the one parse_args leaves for the same registry and
\* tokens, and the call has exited exactly if parse_args exits; and every
\* help call made before parse has written at least one entry, as
\* print_help does for a registry that holds the help flag.
C19_WrappersForward ==
  /\ status \in {"returned", "exited"} =>
       \E ub \in StrdupNullOutcomes :
         LET r == parse_args(BeforeParse, args, ub)
         IN /\ ~ r.crashed
            /\ arguments = r.arguments
            /\ (status = "exited") <=> (r.missing # 0)
  /\ status = "ready" => Len(out) >= helps

\* C20: a spec registered with the symbol argument 0 is never set by a
\* short token: the iteration that handles a short token, whatever its
\* characters, leaves the value of every such spec as it was.
C20_SymbolLessNeverSetByShort ==
  [][(status = "scanning" /\ i < Len(argv) /\ IsShort(args[i]))
     => \A j \in Specs :
          passed[j] = NUL => arguments'[j].value = arguments[j].value]_vars

\* a step of the token loop that handles the token args[i]
Handling == status = "scanning" /\ i >= 1 /\ i <= Len(args)

\* spec j comes after a spec that carries the same symbol
AfterSameSymbol(j) ==
  \E k \in 1..(j - 1) : arguments[k].sym = arguments[j].sym

\* spec j comes after a Flag or Keyword that carries the same symbol
AfterSameSymbolOption(j) ==
  \E k \in 1..(j - 1) :
    arguments[k].sym = arguments[j].sym /\ arguments[k].type \in {FLAG, KWARG}

\* C21, as stated: a short token leaves the value of every spec unchanged
\* that was registered after a spec carrying the same symbol.
C21_FirstSymbolWins ==
  [][(Handling /\ IsShort(args[i])) =>
       \A j \in Specs :
         AfterSameSymbol(j) => arguments'[j].value = arguments[j].value]_vars

\* C21: when several specs share a symbol, a short token leaves the value
\* of every spec unchanged that was registered after a Flag or Keyword
\* carrying the same symbol: of the specs sharing a symbol it can change
\* only the first Flag or Keyword.
C21_FirstOptionWithSymbolWins ==
  [][(Handling /\ IsShort(args[i])) =>
       \A j \in Specs :
         AfterSameSymbolOption(j) =>
           arguments'[j].value = arguments[j].value]_vars

\* C21 witness: one short token has been handled; two Flags or Keywords
\* share one of its symbols, the first has a value and the second has none
C21_Witness ==
  /\ status = "scanning" /\ i = 2
  /\ IsShort(args[1])
  /\ \E k, j \in Specs :
       /\ k < j
       /\ arguments[k].sym = arguments[j].sym
       /\ arguments[k].sym \in Chars(NamePart(args[1]))
       /\ arguments[k].type \in {FLAG, KWARG}
       /\ arguments[j].type \in {FLAG, KWARG}
       /\ ~AfterSameSymbolOption(k)
       /\ arguments[k].value # NULL
       /\ arguments[j].value = NULL

\* C22: a required spec that declares a default and is addressed by no
\* token still ends parse in the missing-required failure, with its name on
\* standard error and its value absent; and when parse has returned, no
\* required spec holds its default: defaults go to non-required specs only.
C22_DefaultNeverSatisfiesRequired ==
  /\ status \in {"returned", "exited"} =>
       \A j \in Specs :
         (/\ arguments[j].required # 0
          /\ arguments[j].def_val # NULL
          /\ Addressing(j) = {})
         => /\ status = "exited"
            /\ err # <<>>
            /\ arguments[j].value = NULL
  /\ status = "returned" =>
       \A j \in Specs :
         held[j] = "def_val" => arguments[j].required = 0

\* C22 witness: parse of a non-empty list has exited naming a required
\* spec that declares a default and that no token was addressed to
C22_Witness ==
  /\ status = "exited"
  /\ args # <<>>
  /\ \E j \in Specs :
       /\ arguments[j].required # 0
       /\ arguments[j].def_val = Str(DefaultD)
       /\ Addressing(j) = {}
       /\ arguments[j].value = NULL
       /\ err = <<arguments[j].name>>

\* the name part of tok is a proper prefix of the name of spec a
Abbreviates(tok, a) ==
  /\ Len(NamePart(tok)) >= 1
  /\ Len(NamePart(tok)) < Len(a.name)
  /\ SubSeq(a.name, 1, Len(NamePart(tok))) = NamePart(tok)

\* C23: parse reads neither allow_abbrev nor prefix_char.  Whatever the two
\* options are, a step of the token loop changes the value of a spec only
\* when the token is addressed to it by the literal prefix ("-": one of its
\* characters is the spec's symbol; "--" or none: its name part is exactly
\* the spec's name), it echoes the name part exactly when the token has no
\* leading "-", and a token that carries a value does not end the process.
C23_OptionsAreInert ==
  [][Handling =>
       /\ \A j \in Specs :
            arguments'[j].value # arguments[j].value
              => Addresses(args[i], arguments[j])
       /\ out' = out \o (IF Dashes(args[i]) = 0 THEN <<NamePart(args[i])>>
                         ELSE <<>>)
       /\ ValuePart(args[i]) # NULL => status' = "scanning"]_vars

\* C23 witness: with allow_abbrev on and "+" as the prefix character, parse
\* has returned from a token that begins with "+" and holds the name of a
\* Keyword and a long token that abbreviates that name; the first was
\* echoed as a bare token and the Keyword holds its default
C23_Witness ==
  /\ status = "returned"
  /\ parser.allow_abbrev = TRUE
  /\ parser.prefix_char = "+"
  /\ Len(args) = 2
  /\ args[1][1] = parser.prefix_char
  /\ Dashes(args[2]) = 2
  /\ \E j \in Specs :
       /\ arguments[j].type = KWARG
       /\ Body(args[1]) = <<"+">> \o arguments[j].name \o <<"=", "5">>
       /\ Abbreviates(args[2], arguments[j])
       /\ held[j] = "def_val"
       /\ argparser_get_kwarg(arguments, arguments[j].name) = Str(DefaultD)
  /\ out = <<NamePart(args[1])>>

\* the field the documentation of parser() gives to a string directive
FieldOf(d) ==
  IF d = "p" THEN "program" ELSE IF d = "u" THEN "usage"
  ELSE IF d = "d" THEN "description" ELSE "epilog"

\* the positions of directive d in the format fmt
DirectiveAt(fmt, d) == {k \in 1..Len(fmt) : fmt[k].d = d}

\* registry p holds, in the field of each string directive, the argument of
\* the last such directive of fmt, and NULL where fmt has none
StoresInOwnField(fmt, p) ==
  \A d \in {"p", "u", "d", "e"} :
    p[FieldOf(d)] = IF DirectiveAt(fmt, d) = {} THEN NULL
                    ELSE Str(fmt[Max(DirectiveAt(fmt, d))].v)

\* C24: parser(registry, format, ...) stores the argument of %p in program,
\* of %u in usage, of %d in description and of %e in epilog: the registry
\* built from a format holds each directive's string in that directive's
\* own field.
C24_DirectiveStoredInOwnField ==
  \A fmt \in Formats :
    parser = parser_format([p |-> parser_defaults, lost |-> 0], fmt).p
      => StoresInOwnField(fmt, parser)

\* the first-registered spec that has the name of spec j
FirstOfName(j) == Min({k \in Specs : arguments[k].name = arguments[j].name})

\* C25: when several specs share a name, every accessor consults the first-
\* registered one only.  For a spec j registered after a spec f of the same
\* name: if f is of another kind, the accessor of j's kind reports "not
\* found" for the name (NULL, or false for a Flag); if f is of the same
\* kind, the accessor gives what f holds (for a Flag whether f has a value,
\* otherwise f's value or else f's default), whatever j holds.
C25_FirstNameWinsAtLookup ==
  \A j \in Specs :
    ~NameResolvesTo(j) =>
      LET f == arguments[FirstOfName(j)]
          N == arguments[j].name
          own == IF f.value # NULL THEN f.value ELSE f.def_val
      IN /\ arguments[j].type = KWARG =>
              argparser_get_kwarg(arguments, N)
                = (IF f.type = KWARG THEN own ELSE NULL)
         /\ arguments[j].type = ARG =>
              argparser_get_arg(arguments, N)
                = (IF f.type = ARG THEN own ELSE NULL)
         /\ arguments[j].type = FLAG =>
              argparser_get_flag(arguments, N)
                = (IF f.type = FLAG /\ f.value # NULL THEN 1 ELSE 0)

\* C25 witness: parse has returned; a Keyword registered after a Positional
\* of the same name holds a value, and get_kwarg reports the name as not
\* found
C25_Witness ==
  /\ status = "returned"
  /\ \E j \in Specs :
       /\ arguments[j].type = KWARG
       /\ ~NameResolvesTo(j)
       /\ arguments[FirstOfName(j)].type = ARG
       /\ arguments[j].value # NULL
       /\ held[j] = "block"
       /\ argparser_get_kwarg(arguments, arguments[j].name) = NULL

\* C26: parse does not modify the caller's argument vector: from the call
\* on, every string of argv has the content the caller passed, also for
\* tokens that contain "=".
C26_ArgvUnchanged ==
  status \in {"scanning", "returned", "exited", "crashed"} =>
    argv = <<ProgName>> \o args

\* C27: every token that matches a Keyword replaces the Keyword's value by
\* what the token carries, so after the scan the value is the one of the
\* last matching token: a step of the token loop on a token addressed to
\* the Keyword its name or symbol resolves to leaves the loop running with
\* the Keyword's value equal to the token's value part, which is absent
\* (NULL) for a token without "=value", whatever an earlier token supplied.
C27_LastTokenWins ==
  [][Handling =>
       \A j \in Specs :
         (/\ arguments[j].type = KWARG
          /\ NameResolvesTo(j) /\ SymResolvesTo(j)
          /\ Addresses(args[i], arguments[j]))
         => /\ status' = "scanning"
            /\ arguments'[j].value = ValuePart(args[i])]_vars

\* C28: once a token has set a Flag to "true", it stays so until teardown:
\* every step other than argparser_delete (a later token, the post-scan
\* pass, a registration, the help printer) leaves the value of the Flag
\* "true", and get_flag of its name, once true, stays true.
C28_FlagStaysSet ==
  [][status' # "deleted" =>
       \A j \in Specs :
         (arguments[j].type = FLAG /\ arguments[j].value = Str(TrueStr))
         => /\ j <= Len(arguments')
            /\ arguments'[j].type = FLAG
            /\ arguments'[j].value = Str(TrueStr)
            /\ argparser_get_flag(arguments, arguments[j].name) = 1
                 => argparser_get_flag(arguments', arguments[j].name) = 1]_vars

\* C28 witness: parse has returned from two tokens of different forms, both
\* addressed to one Flag, a spec has been registered since (it declares a
\* default and holds no value), and get_flag of the Flag is true
C28_Witness ==
  /\ status = "returned"
  /\ Len(args) = 2
  /\ Dashes(args[1]) # Dashes(args[2])
  /\ \E j, k \in Specs :
       /\ arguments[j].type = FLAG
       /\ Addressing(j) = {1, 2}
       /\ arguments[j].value = Str(TrueStr)
       /\ argparser_get_flag(arguments, arguments[j].name) = 1
       /\ k > j
       /\ arguments[k].def_val # NULL
       /\ arguments[k].value = NULL

\* C29: a short token never changes the value of a Positional, also when
\* the Positional's symbol is one of the token's characters.
C29_ShortTokenSkipsPositionals ==
  [][(Handling /\ IsShort(args[i])) =>
       \A j \in Specs :
         arguments[j].type = ARG => arguments'[j].value = arguments[j].value]_vars

\* C29 witness: one short token has been handled; a Positional and a
\* Keyword carry one of its characters as their symbol, the Keyword holds
\* the token's value and the Positional holds none
C29_Witness ==
  /\ status = "scanning" /\ i = 2
  /\ IsShort(args[1])
  /\ \E j, k \in Specs :
       /\ arguments[j].type = ARG
       /\ arguments[j].sym \in Chars(NamePart(args[1]))
       /\ arguments[j].value = NULL
       /\ arguments[k].type = KWARG
       /\ arguments[k].sym = arguments[j].sym
       /\ arguments[k].value = ValuePart(args[1])
       /\ ValuePart(args[1]) # NULL

\* the specs whose value a step changes
Changed == {j \in Specs : arguments'[j].value # arguments[j].value}

\* C30: a single long or bare token changes the value of at most one spec,
\* also in a registry where specs of different kinds share the token's
\* name.
C30_OneSpecPerNamedToken ==
  [][(Handling /\ ~IsShort(args[i])) => Cardinality(Changed) <= 1]_vars

====
